---- MODULE Spec2Model ----
(***************************************************************************)
(* Lab inventory: the equipment store, its movement and audit ledgers, the *)
(* handlers that mutate them (add, edit, delete, checkout, checkin) and    *)
(* the bulk import, modelled from src/app.                                 *)
(*                                                                         *)
(* A handler runs against a SQLAlchemy session: objects are changed in     *)
(* memory and db.session.commit() makes everything pending durable in one  *)
(* transaction; db.session.rollback() discards what is pending and leaves  *)
(* what earlier commits made durable.  The variables below are the durable *)
(* content of the database.  A commit may fail (the store is unavailable): *)
(* the parameter `fail` of a handler names the commit that fails, 0 for    *)
(* none.                                                                   *)
(***************************************************************************)
EXTENDS Integers, Sequences, FiniteSets, TLC

VARIABLES
    equipment,      \* table `equipment`: a set of rows
    movement_logs,  \* table `movement_logs`, in insertion order
    audit_logs,     \* table `audit_logs`, in insertion order
    last,           \* what the last handler call did and returned
    ops,            \* number of handler calls so far
    faults,         \* store failures that may still be injected
    session_file,   \* session['bulk_import_temp_file']: the uploaded table, or NoFile
    req             \* the requests in flight (concurrent checkouts)

vars == <<equipment, movement_logs, audit_logs, last, ops, faults, session_file, req>>

----------------------------------------------------------------------------
(* Bounds *)

MaxEquipment == 2   \* rows the equipment table may hold
MaxOps == 2         \* handler calls in one behaviour
MaxFaults == 1      \* injected store failures in one behaviour
MaxBatch == 1       \* data rows of an uploaded table (sequential system)
MaxRows == 3        \* data rows of an uploaded table (import system)
NRows == 5          \* data rows of the tables with a row per position
NumRequests == 2    \* concurrent checkout requests
MaxRunRows == 2     \* data rows of an uploaded table (import run, step by step)
MaxTypedRows == 2   \* data rows of an uploaded table (tables with dates and numbers)
MaxProceedRows == 2 \* data rows of an uploaded table (dry run, then proceed)

----------------------------------------------------------------------------
(* Values *)

\* Python None / SQL NULL in a text cell; NullId is NULL in an integer column.
None == "<None>"
NullId == 0
\* A cell that holds only white space.
Blank == "  "

Statuses == {"Available", "In Use", "Under Maintenance", "Retired", "Missing"}

\* User 1 is the administrator created at start-up; the others are accounts
\* of the remaining roles.
RoleOf == <<"Admin", "Researcher", "Researcher", "Read-only">>
Users == 1..4

Permissions(role) ==
    CASE role = "Admin" -> {"create", "read", "update", "delete", "bulk_import", "user_management"}
      [] role = "Lab Staff" -> {"create", "read", "update", "delete", "bulk_import"}
      [] role = "Researcher" -> {"read", "update", "checkout", "checkin"}
      [] role = "Read-only" -> {"read"}
      [] OTHER -> {}

has_permission(user, action) == action \in Permissions(RoleOf[user])

\* str.strip() on the cell values of the model
Strip(s) == IF s = Blank THEN "" ELSE s

----------------------------------------------------------------------------
(* The database *)

DB == [equipment |-> equipment, movement_logs |-> movement_logs, audit_logs |-> audit_logs]

EmptyDB == [equipment |-> {}, movement_logs |-> << >>, audit_logs |-> << >>]

Exists(db, id) == \E e \in db.equipment : e.id = id

Get(db, id) == CHOOSE e \in db.equipment : e.id = id

\* the query for an equipment row with the tag, were it to find none
TagNeverExists(db, tag) == FALSE

\* Equipment.query.filter_by(asset_tag=...).first() is not None
TagExists(db, tag) == \E e \in db.equipment : e.asset_tag = tag

\* INTEGER PRIMARY KEY of SQLite: one more than the largest id in the table
MaxId(db) == IF db.equipment = {} THEN 0
             ELSE CHOOSE m \in {e.id : e \in db.equipment} : \A e \in db.equipment : e.id <= m

NewId(db) == MaxId(db) + 1

\* the column default of Equipment.status, applied to an attribute left None
DefaultStatus == "Available"

NoValues == [absent |-> TRUE]

AuditLog(user_id, action, record_id, old_values, new_values, equipment_id) ==
    [user_id |-> user_id, equipment_id |-> equipment_id, action |-> action,
     record_id |-> record_id, old_values |-> old_values, new_values |-> new_values]

MovementLog(equipment_id, user_id, action, from_user_id, to_user_id, to_location) ==
    [equipment_id |-> equipment_id, user_id |-> user_id, action |-> action,
     from_user_id |-> from_user_id, to_user_id |-> to_user_id, to_location |-> to_location]

\* db.session.add(audit_log); db.session.commit(), when the commit succeeds
log_audit_event(db, user_id, action, record_id, old_values, new_values, equipment_id) ==
    [db EXCEPT !.audit_logs =
        Append(@, AuditLog(user_id, action, record_id, old_values, new_values, equipment_id))]

\* the INSERT of a movement, were it to replace the rows of the table
AddMovementOverwriting(db, m) == [db EXCEPT !.movement_logs = <<m>>]

\* db.session.add(movement), committed
AddMovement(db, m) == [db EXCEPT !.movement_logs = Append(@, m)]

PutEquipment(db, e) ==
    [db EXCEPT !.equipment = {x \in @ : x.id # e.id} \cup {e}]

Ret(db, result) == [db |-> db, result |-> result]

----------------------------------------------------------------------------
(* The form handlers of routes/inventory.py *)

\* int(text) raises ValueError unless the text is a decimal literal
IsIntLiteral(text) == text \in {"8", "16", "256"}

\* float(text) raises ValueError unless the text is a number
IsFloatLiteral(text) == text \in {"8", "16", "256", "1500.00"}

\* lines 119-121 and 275-276: int(pin_count) raises ValueError
PinCountRaises(form) == form.pin_count # "" /\ ~IsIntLiteral(form.pin_count)

\* lines 137-140 and 322-323: float(purchase_cost) raises ValueError
CostRaises(form) == form.purchase_cost # "" /\ ~IsFloatLiteral(form.purchase_cost)

\* lines 119-121 and 275-276: `int(pin_count) if pin_count else None`
FormInt(text) == IF text = "" THEN None ELSE text

\* line 185, `if equipment.assigned_to_id:` and line 295, `if new_assigned_to:`
Truthy(user_id) == user_id # NullId

\* is_available, were it to admit equipment that is in use as well
is_available_or_in_use(e) == e.status \in {"Available", "In Use"}

\* Equipment.is_available
is_available(e) == e.status = "Available"

\* Equipment.can_be_assigned
can_be_assigned(e) == e.status \in {"Available", "In Use"}

\* The status an add stores: the form's, overridden when an assignee is given
AddStatus(form) == IF Truthy(form.assigned_to) THEN "In Use" ELSE form.status

\* lines 104-158: the Equipment() built from the form; the forms of the
\* model post no procurement_date, which leaves the attribute None
NewEquipment(db, form) ==
    [id |-> NewId(db),
     asset_tag |-> Strip(form.asset_tag),
     name |-> Strip(form.name),
     category |-> Strip(form.category),
     procurement_date |-> None,
     status |-> AddStatus(form),
     pin_count |-> FormInt(form.pin_count),
     location |-> Strip(form.location),
     assigned_to_id |-> form.assigned_to]

\* lines 166-182: the row committed, then the audit row committed
AddAudited(db, actor, e) ==
    log_audit_event(PutEquipment(db, e), actor, "create_equipment", e.id, NoValues,
                    [asset_tag |-> e.asset_tag, name |-> e.name, category |-> e.category],
                    e.id)

\* lines 185-195: the 'assign' movement committed
AddAssigned(db, actor, e) ==
    AddMovement(AddAudited(db, actor, e),
                MovementLog(e.id, actor, "assign", NullId, e.assigned_to_id, e.location))

\* lines 160-195: the three commits of an add
AddCommit(db, actor, e, fail) ==
    IF e.asset_tag = "" \/ e.name = "" THEN Ret(db, "invalid")
    ELSE IF TagExists(db, e.asset_tag) THEN Ret(db, "duplicate")
    ELSE IF fail = 1 THEN Ret(db, "error")                    \* first commit fails, rollback
    ELSE IF fail = 2 THEN Ret(PutEquipment(db, e), "error")   \* commit of the audit row fails
    ELSE IF ~Truthy(e.assigned_to_id) THEN Ret(AddAudited(db, actor, e), "ok")
    ELSE IF fail = 3 THEN Ret(AddAudited(db, actor, e), "error")  \* commit of the movement fails
    ELSE Ret(AddAssigned(db, actor, e), "ok")

add_equipment(db, actor, form, fail) ==
    IF ~has_permission(actor, "create") THEN Ret(db, "denied")
    ELSE IF PinCountRaises(form) \/ CostRaises(form)
    THEN Ret(db, "invalid")                          \* ValueError: nothing is in the session
    ELSE AddCommit(db, actor, NewEquipment(db, form), fail)

\* The status an edit stores: the form's, overridden when the assignee changes
EditStatus(old_assigned_to, form) ==
    IF old_assigned_to # form.assigned_to
    THEN IF Truthy(form.assigned_to) THEN "In Use" ELSE "Available"
    ELSE form.status

\* The movements of an edit, were a transfer between two users to be
\* recorded as an 'unassign' followed by an 'assign'
EditMovementInTwo(e, actor, form) ==
    IF e.assigned_to_id = form.assigned_to THEN << >>
    ELSE IF ~Truthy(form.assigned_to)
    THEN <<MovementLog(e.id, actor, "unassign", e.assigned_to_id, NullId,
                       Strip(form.location))>>
    ELSE IF ~Truthy(e.assigned_to_id)
    THEN <<MovementLog(e.id, actor, "assign", NullId, form.assigned_to,
                       Strip(form.location))>>
    ELSE <<MovementLog(e.id, actor, "unassign", e.assigned_to_id, NullId,
                       Strip(form.location)),
           MovementLog(e.id, actor, "assign", NullId, form.assigned_to,
                       Strip(form.location))>>

\* The movement an edit adds to the session, << >> when the assignee is unchanged
EditMovement(e, actor, form) ==
    IF e.assigned_to_id = form.assigned_to THEN << >>
    ELSE IF Truthy(form.assigned_to)
    THEN <<MovementLog(e.id, actor, "assign", e.assigned_to_id, form.assigned_to,
                       Strip(form.location))>>
    ELSE <<MovementLog(e.id, actor, "unassign", e.assigned_to_id, NullId,
                       Strip(form.location))>>

Snapshot(e) == [asset_tag |-> e.asset_tag, name |-> e.name, status |-> e.status,
                assigned_to_id |-> e.assigned_to_id, location |-> e.location]

\* lines 246-319: the row after the form is applied to it
Edited(old, form) ==
    [id |-> old.id,
     asset_tag |-> Strip(form.asset_tag),
     name |-> Strip(form.name),
     category |-> Strip(form.category),
     procurement_date |-> None,
     status |-> EditStatus(old.assigned_to_id, form),
     pin_count |-> FormInt(form.pin_count),
     location |-> Strip(form.location),
     assigned_to_id |-> form.assigned_to]

\* line 339: the commit of the row and of the movement
EditWrite(db, actor, old, form) ==
    [PutEquipment(db, Edited(old, form)) EXCEPT
        !.movement_logs = @ \o EditMovement(old, actor, form)]

\* lines 339-358: the two commits of an edit
EditCommit(db, actor, old, form, fail) ==
    \* UNIQUE(asset_tag): IntegrityError at the commit, rollback
    IF \E x \in db.equipment : x.id # old.id /\ x.asset_tag = Strip(form.asset_tag)
    THEN Ret(db, "conflict")
    ELSE IF fail = 1 THEN Ret(db, "error")
    ELSE IF fail = 2 THEN Ret(EditWrite(db, actor, old, form), "error")
    ELSE Ret(log_audit_event(EditWrite(db, actor, old, form), actor, "update_equipment",
                             old.id, Snapshot(old), Snapshot(Edited(old, form)), old.id),
             "ok")

\* lines 246-276 and 246-323: what the session holds when the ValueError is
\* raised.  int(pin_count) raises behind the assignments of the tag, the
\* name, the category and the status; float(purchase_cost) raises behind
\* all of them, the assignee and the movement included.
EditPending(db, actor, old, form) ==
    IF PinCountRaises(form)
    THEN PutEquipment(db, [old EXCEPT !.asset_tag = Strip(form.asset_tag),
                                      !.name = Strip(form.name),
                                      !.category = Strip(form.category),
                                      !.status = form.status])
    ELSE EditWrite(db, actor, old, form)

\* the end of the request, were it to commit what the session holds
CommitOnTeardown(db, pending) == pending

\* lines 366-367 and 372-373: `except ValueError` neither commits nor rolls
\* back, the handler renders the form again and returns; the session is
\* removed at the end of the request and what it holds is discarded
Teardown(db, pending) == db

edit(db, actor, id, form, fail) ==
    IF ~Exists(db, id) THEN Ret(db, "not_found")
    ELSE IF ~has_permission(actor, "update") THEN Ret(db, "denied")
    ELSE IF PinCountRaises(form) \/ CostRaises(form)
    THEN Ret(Teardown(db, EditPending(db, actor, Get(db, id), form)), "invalid")
    ELSE EditCommit(db, actor, Get(db, id), form, fail)

\* cascade='all, delete-orphan' on Equipment.movement_logs and .audit_logs
CascadeDelete(db, id) ==
    [equipment |-> {x \in db.equipment : x.id # id},
     movement_logs |-> SelectSeq(db.movement_logs, LAMBDA m : m.equipment_id # id),
     audit_logs |-> SelectSeq(db.audit_logs, LAMBDA a : a.equipment_id # id)]

\* lines 400-408 of delete: the audit row of the deleted equipment
DeleteAudit(db, actor, old) ==
    log_audit_event(CascadeDelete(db, old.id), actor, "delete_equipment", old.id,
                    [asset_tag |-> old.asset_tag, name |-> old.name, category |-> old.category],
                    NoValues, old.id)

delete(db, actor, id, fail) ==
    IF ~has_permission(actor, "delete") THEN Ret(db, "denied")
    ELSE IF ~Exists(db, id) THEN Ret(db, "not_found")
    ELSE IF fail = 1 THEN Ret(db, "error")
    ELSE IF fail = 2 THEN Ret(CascadeDelete(db, id), "error")
    ELSE Ret(DeleteAudit(db, actor, Get(db, id)), "ok")

\* lines 431-447 of checkout: the in-memory change and its commit
CheckoutWrite(db, actor, e) ==
    AddMovement(PutEquipment(db, [e EXCEPT !.status = "In Use", !.assigned_to_id = actor]),
                MovementLog(e.id, actor, "checkout", NullId, actor, e.location))

\* lines 449-457 of checkout
CheckoutAudit(db, actor, id) ==
    log_audit_event(db, actor, "checkout_equipment", id,
                    [status |-> "Available", assigned_to_id |-> NullId],
                    [status |-> "In Use", assigned_to_id |-> actor], id)

checkout(db, actor, id, fail) ==
    IF ~Exists(db, id) THEN Ret(db, "not_found")
    ELSE IF ~is_available(Get(db, id)) THEN Ret(db, "rejected")
    ELSE IF ~has_permission(actor, "checkout") THEN Ret(db, "denied")
    ELSE IF fail = 1 THEN Ret(db, "error")
    ELSE IF fail = 2 THEN Ret(CheckoutWrite(db, actor, Get(db, id)), "error")
    ELSE Ret(CheckoutAudit(CheckoutWrite(db, actor, Get(db, id)), actor, id), "ok")

\* line 472 of checkin, were it to admit every actor
MayCheckinAnyone(e, actor) == TRUE

\* line 472 of checkin
MayCheckin(e, actor) == e.assigned_to_id = actor \/ has_permission(actor, "update")

\* lines 476-492 of checkin: the in-memory change and its commit
CheckinWrite(db, actor, old) ==
    AddMovement(PutEquipment(db, [old EXCEPT !.status = "Available",
                                             !.assigned_to_id = NullId]),
                MovementLog(old.id, actor, "checkin", old.assigned_to_id, NullId,
                            old.location))

\* lines 494-502 of checkin
CheckinAudit(db, actor, old) ==
    log_audit_event(db, actor, "checkin_equipment", old.id,
                    [status |-> "In Use", assigned_to_id |-> old.assigned_to_id],
                    [status |-> "Available", assigned_to_id |-> NullId], old.id)

checkin(db, actor, id, fail) ==
    IF ~Exists(db, id) THEN Ret(db, "not_found")
    ELSE IF ~MayCheckin(Get(db, id), actor) THEN Ret(db, "denied")
    ELSE IF fail = 1 THEN Ret(db, "error")
    ELSE IF fail = 2 THEN Ret(CheckinWrite(db, actor, Get(db, id)), "error")
    ELSE Ret(CheckinAudit(CheckinWrite(db, actor, Get(db, id)), actor, Get(db, id)), "ok")

----------------------------------------------------------------------------
(* utils/bulk_operations.py: BulkOperations.import_from_dataframe *)

REQUIRED_FIELDS == {"asset_tag", "name", "category"}

\* The optional columns the model carries: a date column, a text column and
\* an integer column.
OPTIONAL_FIELDS == {"procurement_date", "status", "pin_count"}

AllColumns == REQUIRED_FIELDS \cup OPTIONAL_FIELDS

\* enumerate(df.itertuples(index=False), start=2)
FirstRowNum == 2

\* str(value): None prints as the four letters None
Str(value) == IF value = None THEN "None" ELSE value

\* df.replace({np.nan: None, pd.NA: None, "NA": None, "": None}) on one cell
ReplaceNA(value) == IF value \in {"", "NA"} THEN None ELSE value

\* `value in (..., pd.NA, np.nan)`, `before` being the elements in front of
\* pd.NA.  The elements are compared in order.  value == pd.NA is pd.NA for a
\* string or a number, and bool(pd.NA) raises TypeError; None == pd.NA and
\* None == np.nan are False.
InTupleWithNA(value, before) ==
    IF value \in before THEN "True"
    ELSE IF value = None THEN "False"
    ELSE "TypeError"

\* a cell pd.read_csv read as a float with a fraction
IsFloat(value) == value \in {"256.5"}

\* int(x) of a float: the fraction is cut off
Truncated(value) == IF value = "256.5" THEN "256" ELSE value

\* line 91: int(value) unless the value is in (None, '', pd.NA, np.nan)
ConvertInt(value, in_tuple) ==
    CASE in_tuple = "True" -> [raises |-> "", value |-> None]
      [] in_tuple = "TypeError" -> [raises |-> "TypeError", value |-> None]
      [] OTHER -> IF IsIntLiteral(value)
                  THEN [raises |-> "", value |-> value]
                  ELSE IF IsFloat(value)
                  THEN [raises |-> "", value |-> Truncated(value)]
                  ELSE [raises |-> "ValueError", value |-> None]

----------------------------------------------------------------------------
(* BulkOperations.parse_date *)

\* the characters of a date text: its separator, its three numbers in the
\* order they are written, and whether a time of day follows
Scanned(sep, a, b, c, time) == [sep |-> sep, a |-> a, b |-> b, c |-> c, time |-> time]

Scan(text) ==
    CASE text = "2024-01-31" -> Scanned("-", 2024, 1, 31, FALSE)
      [] text = "01/31/2024" -> Scanned("/", 1, 31, 2024, FALSE)
      [] text = "31/01/2024" -> Scanned("/", 31, 1, 2024, FALSE)
      [] text = "01/02/2024" -> Scanned("/", 1, 2, 2024, FALSE)
      [] text = "2024-01-31 10:30:00" -> Scanned("-", 2024, 1, 31, TRUE)
      [] text = "2024-13-01" -> Scanned("-", 2024, 13, 1, FALSE)
      [] text = "31/31/2024" -> Scanned("/", 31, 31, 2024, FALSE)
      [] text = "02/30/2024" -> Scanned("/", 2, 30, 2024, FALSE)
      [] text = "30/02/2024" -> Scanned("/", 30, 2, 2024, FALSE)
      [] text = "01/31/2024 10:30:00" -> Scanned("/", 1, 31, 2024, TRUE)
      [] OTHER -> Scanned("", 0, 0, 0, FALSE)

\* line 44, in the order the loop of line 45 tries them
date_formats == <<"%Y-%m-%d", "%m/%d/%Y", "%d/%m/%Y", "%Y-%m-%d %H:%M:%S">>

IsLeap(y) == (y % 4 = 0 /\ y % 100 # 0) \/ y % 400 = 0

DaysIn(y, m) ==
    IF m = 2 THEN (IF IsLeap(y) THEN 29 ELSE 28)
    ELSE IF m \in {4, 6, 9, 11} THEN 30 ELSE 31

\* datetime(y, m, d) is a date: %Y is four digits, %m is 1..12, %d a day of
\* that month
IsDate(y, m, d) ==
    /\ y \in 1000..9999
    /\ m \in 1..12
    /\ d \in 1..DaysIn(y, m)

\* datetime.strptime(text, fmt).date() for the scanned text t: the date as
\* <<year, month, day>>, or << >> when strptime raises ValueError
strptime(t, fmt) ==
    CASE fmt = "%Y-%m-%d" ->
             IF t.sep = "-" /\ ~t.time /\ IsDate(t.a, t.b, t.c) THEN <<t.a, t.b, t.c>> ELSE << >>
      [] fmt = "%m/%d/%Y" ->
             IF t.sep = "/" /\ ~t.time /\ IsDate(t.c, t.a, t.b) THEN <<t.c, t.a, t.b>> ELSE << >>
      [] fmt = "%d/%m/%Y" ->
             IF t.sep = "/" /\ ~t.time /\ IsDate(t.c, t.b, t.a) THEN <<t.c, t.b, t.a>> ELSE << >>
      [] fmt = "%Y-%m-%d %H:%M:%S" ->
             IF t.sep = "-" /\ t.time /\ IsDate(t.a, t.b, t.c) THEN <<t.a, t.b, t.c>> ELSE << >>

\* lines 45-50: the first format from the k-th on that converts the text
RECURSIVE TryFormats(_, _)
TryFormats(t, k) ==
    IF k > Len(date_formats)
    THEN [raises |-> "Invalid date format", value |-> None]
    ELSE IF strptime(t, date_formats[k]) # << >>
    THEN [raises |-> "", value |-> strptime(t, date_formats[k])]
    ELSE TryFormats(t, k + 1)

\* lines 36-50
parse_date(date_str) ==
    IF date_str = None \/ date_str = "" \/ Strip(date_str) = ""
    THEN [raises |-> "", value |-> None]
    ELSE TryFormats(Scan(Strip(date_str)), 1)

----------------------------------------------------------------------------
(* The conversions of the optional fields *)

\* line 95: parse_date(value) unless the value is in (None, '', pd.NA, np.nan)
ConvertDate(value, in_tuple) ==
    CASE in_tuple = "True" -> [raises |-> "", value |-> None]
      [] in_tuple = "TypeError" -> [raises |-> "TypeError", value |-> None]
      [] OTHER -> parse_date(value)

\* lines 96-99: the stripped text, None when it is in ('', 'NA', pd.NA, np.nan)
ConvertText(value, in_tuple) ==
    CASE in_tuple = "True" -> [raises |-> "", value |-> None]
      [] in_tuple = "TypeError" -> [raises |-> "TypeError", value |-> None]
      [] OTHER -> [raises |-> "", value |-> value]

\* lines 88-99 for one optional field: the value stored, and the exception
\* the conversion raises, if any
ConvertOptional(field, value) ==
    IF field = "pin_count"
    THEN ConvertInt(value, InTupleWithNA(value, {None, ""}))
    ELSE IF field = "procurement_date"
    THEN ConvertDate(value, InTupleWithNA(value, {None, ""}))
    ELSE ConvertText(Strip(value), InTupleWithNA(Strip(value), {"", "NA"}))

RowError(row_num, msg) == [row |-> row_num, msg |-> msg]

\* lines 73-105: the outcome for a row, given its cells and its converted
\* optional fields.  [error |-> message or "", draft |-> Equipment()]
CheckRow(db, asset_tag, name, category, procurement_date, status, pin_count) ==
    IF asset_tag = None \/ Strip(Str(asset_tag)) = ""
    THEN [error |-> "asset_tag is required."]
    ELSE IF TagExists(db, Strip(Str(asset_tag)))
    THEN [error |-> "already exists"]
    ELSE IF procurement_date.raises # ""
    THEN [error |-> procurement_date.raises]
    ELSE IF status.raises # ""
    THEN [error |-> status.raises]
    ELSE IF pin_count.raises # ""
    THEN [error |-> pin_count.raises]
    ELSE [error |-> "",
          draft |-> [asset_tag |-> Strip(Str(asset_tag)),
                     name |-> Strip(Str(name)),
                     category |-> Strip(Str(category)),
                     procurement_date |-> procurement_date.value,
                     status |-> status.value,
                     pin_count |-> pin_count.value]]

\* lines 72-105: one row
ValidateRow(db, row) ==
    CheckRow(db, row.asset_tag, row.name, row.category,
             ConvertOptional("procurement_date", row.procurement_date),
             ConvertOptional("status", row.status),
             ConvertOptional("pin_count", row.pin_count))

EmptyResults == [success |-> 0, errors |-> << >>, total |-> 0]

\* lines 71, 75, 80, 101-102, 105: what a row adds to the results
Tally(acc, v, row_num) ==
    IF v.error # ""
    THEN [results |-> [acc.results EXCEPT !.total = @ + 1,
                                          !.errors = Append(@, RowError(row_num, v.error))],
          equipment_list |-> acc.equipment_list]
    ELSE [results |-> [acc.results EXCEPT !.total = @ + 1, !.success = @ + 1],
          equipment_list |-> Append(acc.equipment_list, v.draft)]

\* line 68: df.replace({np.nan: None, pd.NA: None, "NA": None, "": None})
ReplaceRow(row) == [f \in DOMAIN row |-> ReplaceNA(row[f])]

\* lines 57-58 and 70-105: the loop over the first n rows
RECURSIVE ValidateRows(_, _, _)
ValidateRows(db, rows, n) ==
    IF n = 0 THEN [results |-> EmptyResults, equipment_list |-> << >>]
    ELSE Tally(ValidateRows(db, rows, n - 1),
               ValidateRow(db, ReplaceRow(rows[n])),
               n + FirstRowNum - 1)

\* line 108, were it to test the list alone
ShouldSaveAnyRun(dry_run, equipment_list) == equipment_list # << >>

\* line 108: `if not dry_run and equipment_list:`
ShouldSave(dry_run, equipment_list) == ~dry_run /\ equipment_list # << >>

\* INSERT of one draft: a fresh id, the column default for a status left None
InsertDraft(db, d) ==
    PutEquipment(db, [id |-> NewId(db),
                      asset_tag |-> d.asset_tag,
                      name |-> d.name,
                      category |-> d.category,
                      procurement_date |-> d.procurement_date,
                      status |-> IF d.status = None THEN DefaultStatus ELSE d.status,
                      pin_count |-> d.pin_count,
                      location |-> None,
                      assigned_to_id |-> NullId])

\* lines 110-112: the first n drafts, inserted in order
RECURSIVE InsertAll(_, _, _)
InsertAll(db, equipment_list, n) ==
    IF n = 0 THEN db
    ELSE InsertDraft(InsertAll(db, equipment_list, n - 1), equipment_list[n])

\* UNIQUE(asset_tag) over the rows of one flush
HasDuplicateTags(equipment_list) ==
    \E i, j \in 1..Len(equipment_list) :
        i # j /\ equipment_list[i].asset_tag = equipment_list[j].asset_tag

DatabaseError == RowError(0, "Database error")

\* line 123: results['errors'].append("Database error: ...")
Failed(results) == [results EXCEPT !.errors = Append(@, DatabaseError)]

\* lines 107-125: the save of the validated rows v
SaveRows(db, v, user_id, dry_run, fail) ==
    IF ~ShouldSave(dry_run, v.equipment_list)
    THEN [db |-> db, result |-> "ok", results |-> v.results]
    ELSE IF HasDuplicateTags(v.equipment_list)    \* IntegrityError, rollback
    THEN [db |-> db, result |-> "conflict", results |-> Failed(v.results)]
    ELSE IF fail = 1                              \* commit fails, rollback
    THEN [db |-> db, result |-> "error", results |-> Failed(v.results)]
    ELSE IF fail = 2                              \* commit of the audit row fails
    THEN [db |-> InsertAll(db, v.equipment_list, Len(v.equipment_list)),
          result |-> "error", results |-> Failed(v.results)]
    ELSE [db |-> log_audit_event(InsertAll(db, v.equipment_list, Len(v.equipment_list)),
                                 user_id, "bulk_import", NullId, NoValues,
                                 [count |-> Len(v.equipment_list)], NullId),
          result |-> "ok", results |-> v.results]

import_from_dataframe(db, df, user_id, dry_run, fail) ==
    IF ~(REQUIRED_FIELDS \subseteq df.columns)
    THEN [db |-> db, result |-> "invalid",
          results |-> [EmptyResults EXCEPT
                          !.errors = <<RowError(0, "Missing required field in file")>>]]
    ELSE SaveRows(db, ValidateRows(db, df.rows, Len(df.rows)), user_id, dry_run, fail)

----------------------------------------------------------------------------
(* routes/bulk.py: bulk_import *)

NoFile == [columns |-> {}, rows |-> << >>, present |-> FALSE]

File(df) == [columns |-> df.columns, rows |-> df.rows, present |-> TRUE]

\* the results of the import, and the session after the call
Uploaded(r, session) ==
    [db |-> r.db, results |-> r.results, session_file |-> session, result |-> r.result]

\* `if proceed_import and temp_file_path and os.path.exists(temp_file_path):`
Proceeds(session, proceed_import) == proceed_import /\ session.present

\* line 379, were the session to keep its entry
KeepFile(session) == session

\* line 379: session.pop('bulk_import_temp_file', None)
PopFile(session) == NoFile

\* [db, results, session_file, result]
bulk_import(db, session, actor, file, dry_run, proceed_import, fail) ==
    IF ~has_permission(actor, "bulk_import")
    THEN [db |-> db, results |-> EmptyResults, session_file |-> session, result |-> "denied"]
    ELSE IF ~Proceeds(session, proceed_import) /\ ~file.present
    THEN [db |-> db, results |-> EmptyResults, session_file |-> session, result |-> "invalid"]
    ELSE Uploaded(
             import_from_dataframe(db,
                 IF Proceeds(session, proceed_import) THEN session ELSE file,
                 actor,
                 IF Proceeds(session, proceed_import) THEN FALSE ELSE dry_run,
                 fail),
             IF Proceeds(session, proceed_import) THEN PopFile(session) ELSE file)

----------------------------------------------------------------------------
(* The inputs the handlers are called with *)

Tags == {"T1", "T2"}
Locations == {"Lab1"}
FormStatuses == {"Available", "In Use", "Retired"}

\* the users that call the handlers: an administrator, a researcher and a
\* read-only account.  Additions and uploads are posted by the administrator
\* and the researcher, edits by the administrator and the read-only account.
Actors == {1, 2, 4}
Posters == {1, 2}
Editors == {1, 4}
Assignees == {NullId, 2, 4}

\* well-formed forms, and one form each with a non-numeric pin_count and
\* with a blank asset tag
Forms ==
    [asset_tag : Tags, name : {"scope"}, category : {"cat"},
     status : FormStatuses, pin_count : {""}, location : Locations,
     assigned_to : Assignees, purchase_cost : {""}]
    \cup
    [asset_tag : {"T1"}, name : {"scope"}, category : {"cat"},
     status : {"Available"}, pin_count : {"x"}, location : Locations,
     assigned_to : Assignees, purchase_cost : {""}]
    \cup
    [asset_tag : {Blank}, name : {"scope"}, category : {"cat"},
     status : {"Available"}, pin_count : {""}, location : Locations,
     assigned_to : {NullId}, purchase_cost : {""}]

Row(asset_tag, name, status) ==
    [asset_tag |-> asset_tag, name |-> name, category |-> "cat",
     procurement_date |-> None, status |-> status, pin_count |-> None]

\* the rows of the uploaded tables: a well-formed row, one without an asset
\* tag, one without a name and one with a status
Rows ==
    {Row("T1", "scope", None), Row(None, "scope", None),
     Row("T2", None, None), Row("T2", "scope", "In Use")}

RECURSIVE SeqsUpTo(_, _)
SeqsUpTo(S, n) ==
    IF n = 0 THEN {<< >>}
    ELSE LET shorter == SeqsUpTo(S, n - 1)
         IN  shorter \cup {Append(q, x) : q \in shorter, x \in S}

\* a table whose two rows carry the same asset tag
DuplicateTable ==
    [columns |-> AllColumns,
     rows |-> <<Row("T2", "scope", None), Row("T2", "scope", None)>>,
     present |-> TRUE]

Tables == {[columns |-> AllColumns, rows |-> rows, present |-> TRUE] :
              rows \in SeqsUpTo(Rows, MaxBatch)}
          \cup {DuplicateTable}

\* the commits a store failure may hit: none when no failure is left
FailChoices(n) == IF faults > 0 THEN 0..n ELSE {0}

NoLast == [op |-> "none", actor |-> NullId, id |-> NullId, result |-> "none",
           dry_run |-> FALSE, results |-> EmptyResults]

Called(op, actor, id, result) ==
    [op |-> op, actor |-> actor, id |-> id, result |-> result,
     dry_run |-> FALSE, results |-> EmptyResults]

Imported(op, actor, dry_run, r) ==
    [op |-> op, actor |-> actor, id |-> NullId, result |-> r.result,
     dry_run |-> dry_run, results |-> r.results]

\* the database after a handler returned r; a failure is injected only at a
\* commit the handler reaches, and consumes one fault
Returns(r, fail) ==
    /\ fail = 0 \/ r.result = "error"
    /\ equipment' = r.db.equipment
    /\ movement_logs' = r.db.movement_logs
    /\ audit_logs' = r.db.audit_logs
    /\ ops' = ops + 1
    /\ faults' = IF fail # 0 THEN faults - 1 ELSE faults

\* a form handler was called and returned r
Handled(r, fail, op, actor, id) ==
    /\ Returns(r, fail)
    /\ last' = Called(op, actor, id, r.result)
    /\ UNCHANGED <<session_file, req>>

\* the upload route was called and returned r
Served(r, fail, op, actor, dry_run) ==
    /\ Returns(r, fail)
    /\ session_file' = r.session_file
    /\ last' = Imported(op, actor, dry_run, r)
    /\ UNCHANGED req

----------------------------------------------------------------------------
(* The sequential system: one handler call at a time *)

Init ==
    /\ equipment = {}
    /\ movement_logs = << >>
    /\ audit_logs = << >>
    /\ last = NoLast
    /\ ops = 0
    /\ faults = MaxFaults
    /\ session_file = NoFile
    /\ req = << >>

AddEquipment ==
    /\ ops < MaxOps
    /\ Cardinality(equipment) < MaxEquipment
    /\ \E actor \in Posters, form \in Forms, fail \in FailChoices(3) :
           Handled(add_equipment(DB, actor, form, fail), fail, "add", actor, NewId(DB))

Edit ==
    /\ ops < MaxOps
    /\ \E actor \in Editors, e \in equipment, form \in Forms, fail \in FailChoices(2) :
           Handled(edit(DB, actor, e.id, form, fail), fail, "edit", actor, e.id)

Delete ==
    /\ ops < MaxOps
    /\ \E actor \in Actors, e \in equipment, fail \in FailChoices(2) :
           Handled(delete(DB, actor, e.id, fail), fail, "delete", actor, e.id)

Checkout ==
    /\ ops < MaxOps
    /\ \E actor \in Actors, e \in equipment, fail \in FailChoices(2) :
           Handled(checkout(DB, actor, e.id, fail), fail, "checkout", actor, e.id)

Checkin ==
    /\ ops < MaxOps
    /\ \E actor \in Actors, e \in equipment, fail \in FailChoices(2) :
           Handled(checkin(DB, actor, e.id, fail), fail, "checkin", actor, e.id)

BulkImport ==
    /\ ops < MaxOps
    /\ \E actor \in Posters, file \in Tables, dry_run \in BOOLEAN, fail \in FailChoices(2) :
           Served(bulk_import(DB, session_file, actor, file, dry_run, FALSE, fail),
                  fail, "bulk_import", actor, dry_run)

ProceedImport ==
    /\ ops < MaxOps
    /\ session_file.present
    /\ \E actor \in Posters, fail \in FailChoices(2) :
           Served(bulk_import(DB, session_file, actor, NoFile, FALSE, TRUE, fail),
                  fail, "proceed_import", actor, FALSE)

Next ==
    \/ AddEquipment
    \/ Edit
    \/ Delete
    \/ Checkout
    \/ Checkin
    \/ BulkImport
    \/ ProceedImport

Spec == Init /\ [][Next]_vars

----------------------------------------------------------------------------
(* Properties of the sequential system *)

Stored == <<equipment, movement_logs, audit_logs>>

\* the step is a call of handler `op`
CallOf(op) == ops' = ops + 1 /\ last'.op = op

\* C1: every equipment row with an assignee has status 'In Use'.
AssignedImpliesInUse ==
    \A e \in equipment : e.assigned_to_id # NullId => e.status = "In Use"

\* C2: every equipment row with status 'In Use' has an assignee.
InUseImpliesAssigned ==
    \A e \in equipment : e.status = "In Use" => e.assigned_to_id # NullId

\* C4: an add, edit, checkout, checkin or delete in which a commit failed
\* leaves the equipment table and both ledgers as they were.
FailedCallCommitsNothing ==
    [][(ops' = ops + 1 /\ last'.op \in {"add", "edit", "checkout", "checkin", "delete"}
          /\ last'.result = "error")
       => UNCHANGED Stored]_vars

\* C5: a bulk import that was to write and reports a database error leaves
\* no row of its batch in the equipment table.
FailedImportCommitsNothing ==
    [][(ops' = ops + 1 /\ last'.op \in {"bulk_import", "proceed_import"}
          /\ ~last'.dry_run
          /\ \E i \in 1..Len(last'.results.errors) : last'.results.errors[i] = DatabaseError)
       => equipment' = equipment]_vars

\* C6: a bulk import with dry_run set leaves the equipment table, the
\* movement ledger and the audit ledger as they were.
DryRunWritesNothing ==
    [][(CallOf("bulk_import") /\ last'.dry_run) => UNCHANGED Stored]_vars

\* C6 witness: a dry run that accepted a row has returned.
DryRunAccepted ==
    /\ last.op = "bulk_import"
    /\ last.dry_run
    /\ last.result = "ok"
    /\ last.results.success > 0

\* C10: a checkout of equipment that is not 'Available' is rejected and
\* changes neither the equipment table nor the ledgers.
CheckoutNeedsAvailable ==
    [][(CallOf("checkout")
          /\ \E e \in equipment : e.id = last'.id /\ e.status # "Available")
       => (last'.result = "rejected" /\ UNCHANGED Stored)]_vars

\* C10 witness: a checkout of equipment that is in use or retired was rejected.
CheckoutRejected ==
    /\ last.op = "checkout"
    /\ last.result = "rejected"
    /\ \E e \in equipment : e.id = last.id /\ e.status \in {"In Use", "Retired"}

----------------------------------------------------------------------------
(* The import system: one upload, then the 'proceed with import' step *)

\* the store holding one available, unassigned item T1, as add_equipment
\* leaves it
StoreWithT1 ==
    add_equipment(EmptyDB, 1,
        [asset_tag |-> "T1", name |-> "scope", category |-> "cat",
         status |-> "Available", pin_count |-> "", location |-> "Lab1",
         assigned_to |-> NullId, purchase_cost |-> ""], 0).db

\* rows with every combination of asset tag and name, and one row each with
\* a status, a pin_count and no category
ImportRows ==
    {Row(t, n, None) : t \in Tags \cup {None, Blank}, n \in {"scope", None}}
    \cup {Row("T2", "scope", "In Use"),
          [Row("T2", "scope", None) EXCEPT !.pin_count = "8"],
          [Row("T2", "scope", None) EXCEPT !.category = None]}

ImportTables == {[columns |-> AllColumns, rows |-> rows, present |-> TRUE] :
                    rows \in SeqsUpTo(ImportRows, MaxRows)}
                \cup {[columns |-> AllColumns \ {"name"}, rows |-> <<Row("T2", "scope", None)>>,
                       present |-> TRUE]}

\* tables of NRows rows whose i-th row carries the i-th tag or none, and a
\* name or none
PositionTag == <<"P1", "P2", "P3", "P4", "P5", "P6", "P7", "P8">>

PositionRows(i) == {Row(t, n, None) : t \in {PositionTag[i], None}, n \in {"scope", None}}

RECURSIVE PositionSeqs(_)
PositionSeqs(n) ==
    IF n = 0 THEN {<< >>}
    ELSE {Append(q, x) : q \in PositionSeqs(n - 1), x \in PositionRows(n)}

PositionTables ==
    {[columns |-> AllColumns, rows |-> rows, present |-> TRUE] :
        rows \in PositionSeqs(NRows)}

InitImport ==
    /\ \E db \in {EmptyDB, StoreWithT1} :
           /\ equipment = db.equipment
           /\ movement_logs = db.movement_logs
           /\ audit_logs = db.audit_logs
    /\ last = NoLast
    /\ ops = 0
    /\ faults = MaxFaults
    /\ session_file = NoFile
    /\ req = << >>

UploadTable ==
    /\ last.op = "none"
    /\ \E actor \in Posters, file \in ImportTables, dry_run \in BOOLEAN,
          fail \in FailChoices(2) :
           Served(bulk_import(DB, session_file, actor, file, dry_run, FALSE, fail),
                  fail, "bulk_import", actor, dry_run)

UploadPositionTable ==
    /\ last.op = "none"
    /\ \E file \in PositionTables :
           Served(bulk_import(DB, session_file, 1, file, TRUE, FALSE, 0),
                  0, "bulk_import", 1, TRUE)

ProceedUpload ==
    /\ last.op = "bulk_import"
    /\ session_file.present
    /\ \E actor \in Posters, fail \in FailChoices(2) :
           Served(bulk_import(DB, session_file, actor, NoFile, FALSE, TRUE, fail),
                  fail, "proceed_import", actor, FALSE)

NextImport ==
    \/ UploadTable
    \/ UploadPositionTable
    \/ ProceedUpload

SpecImport == InitImport /\ [][NextImport]_vars

----------------------------------------------------------------------------
(* Properties of the import system *)

\* the table the last upload was called with: the upload branch of the
\* route leaves it in the session
UploadedRows == session_file.rows

\* the call that returned last was an upload that validated its rows
DryRunReturned ==
    /\ last.op = "bulk_import"
    /\ last.dry_run
    /\ last.result = "ok"

\* the cell is absent or blank
Missing(value) == ReplaceNA(value) = None \/ Strip(value) = ""

MissingFields(row) == {f \in REQUIRED_FIELDS : Missing(row[f])}

\* the Row number the code reports for the i-th data row
RowNum(i) == i + FirstRowNum - 1

\* positions in results['errors'] of the errors reported for Row n
ErrorsOf(n) == {k \in 1..Len(last.results.errors) : last.results.errors[k].row = n}

\* C7: in an upload, a row whose asset tag is that of an earlier accepted
\* row of the same table, or of an equipment row in the store, is reported
\* with an error carrying its row number.
DuplicateKeyRejected ==
    DryRunReturned =>
        \A i \in 1..Len(UploadedRows) :
            (/\ ~Missing(UploadedRows[i].asset_tag)
             /\ \/ TagExists(DB, UploadedRows[i].asset_tag)
                \/ \E j \in 1..(i - 1) :
                       /\ UploadedRows[j].asset_tag = UploadedRows[i].asset_tag
                       /\ MissingFields(UploadedRows[j]) = {}
                       /\ ErrorsOf(RowNum(j)) = {})
            => ErrorsOf(RowNum(i)) # {}

\* C8: in an upload, a row with a required field absent or blank is
\* reported with one error for each such field.
MissingFieldRejected ==
    DryRunReturned =>
        \A i \in 1..Len(UploadedRows) :
            MissingFields(UploadedRows[i]) # {}
            => Cardinality(ErrorsOf(RowNum(i))) = Cardinality(MissingFields(UploadedRows[i]))

\* C9: a dry run over a table in which exactly the 2nd and the 5th data row
\* lack a required field reports every row in the total, all but two as
\* accepted, and two rejections, numbered 2 and 5.
PartialFailureReport ==
    (/\ DryRunReturned
     /\ {i \in 1..Len(UploadedRows) : MissingFields(UploadedRows[i]) # {}} = {2, 5})
    => /\ last.results.total = Len(UploadedRows)
       /\ last.results.success = Len(UploadedRows) - 2
       /\ Len(last.results.errors) = 2
       /\ last.results.errors[1].row = 2
       /\ last.results.errors[2].row = 5

----------------------------------------------------------------------------
(* The concurrent system: checkout requests served side by side, each with  *)
(* its own session.  A request loads the row, tests the copy it loaded,     *)
(* flushes its UPDATE and its movement in one commit, and commits the audit *)
(* row.                                                                     *)

Requests == 1..NumRequests

\* the accounts that post the requests: two researchers and a read-only one
Requesters == {2, 3, 4}

\* the id of the equipment the requests are for: the first row of the table
RaceId == NewId(EmptyDB)

NewRequest(actor) ==
    [actor |-> actor, id |-> RaceId, pc |-> "load", equipment |-> NoValues,
     result |-> "none"]

InitRace ==
    /\ equipment = StoreWithT1.equipment
    /\ movement_logs = StoreWithT1.movement_logs
    /\ audit_logs = StoreWithT1.audit_logs
    /\ last = NoLast
    /\ ops = 0
    /\ faults = 0
    /\ session_file = NoFile
    /\ req \in [Requests -> {NewRequest(actor) : actor \in Requesters}]

\* the request moves on; the database is as `db`
Moves(i, r, db) ==
    /\ req' = [req EXCEPT ![i] = r]
    /\ equipment' = db.equipment
    /\ movement_logs' = db.movement_logs
    /\ audit_logs' = db.audit_logs
    /\ UNCHANGED <<last, ops, faults, session_file>>

\* line 421: equipment = Equipment.query.get_or_404(id)
Load(i) ==
    /\ req[i].pc = "load"
    /\ Moves(i, [req[i] EXCEPT !.pc = "check", !.equipment = Get(DB, req[i].id)], DB)

\* lines 423-429: the tests, on the copy the session holds
Check(i) ==
    /\ req[i].pc = "check"
    /\ Moves(i,
             IF ~is_available(req[i].equipment)
             THEN [req[i] EXCEPT !.pc = "done", !.result = "rejected"]
             ELSE IF ~has_permission(req[i].actor, "checkout")
             THEN [req[i] EXCEPT !.pc = "done", !.result = "denied"]
             ELSE [req[i] EXCEPT !.pc = "write"],
             DB)

\* lines 431-447: UPDATE equipment SET status, assigned_to_id WHERE id, the
\* INSERT of the movement, and the commit
Write(i) ==
    /\ req[i].pc = "write"
    /\ Moves(i, [req[i] EXCEPT !.pc = "audit"],
             CheckoutWrite(DB, req[i].actor, Get(DB, req[i].id)))

\* lines 449-459: log_audit_event and the success message
Audit(i) ==
    /\ req[i].pc = "audit"
    /\ Moves(i, [req[i] EXCEPT !.pc = "done", !.result = "ok"],
             CheckoutAudit(DB, req[i].actor, req[i].id))

NextRace ==
    \E i \in Requests :
        \/ Load(i)
        \/ Check(i)
        \/ Write(i)
        \/ Audit(i)

SpecRace == InitRace /\ [][NextRace]_vars

\* the requests of accounts that may check out
Permitted == {i \in Requests : has_permission(req[i].actor, "checkout")}

CheckoutMovements ==
    {k \in 1..Len(movement_logs) :
        movement_logs[k].action = "checkout" /\ movement_logs[k].equipment_id = RaceId}

\* C3: when requests of different actors have checked out the same
\* available equipment side by side and all have returned, exactly one has
\* succeeded, the equipment is in use by that actor with one 'checkout'
\* movement, and the others were rejected as not available.
OneCheckoutSucceeds ==
    (/\ \A i \in Requests : req[i].pc = "done"
     /\ \E i, j \in Permitted : req[i].actor # req[j].actor)
    => \E w \in Permitted :
           /\ req[w].result = "ok"
           /\ \A i \in Permitted \ {w} : req[i].result = "rejected"
           /\ Get(DB, RaceId).status = "In Use"
           /\ Get(DB, RaceId).assigned_to_id = req[w].actor
           /\ Cardinality(CheckoutMovements) = 1

----------------------------------------------------------------------------
(* Further properties of the sequential system *)

\* C11: a checkin by an actor who is neither the assignee nor holds 'update'
\* is denied and changes neither the equipment table nor the ledgers; a
\* checkin by the assignee or by an actor holding 'update' that succeeds sets
\* status 'Available' and assignee NULL and appends one 'checkin' movement
\* whose from_user is the previous assignee.
CheckinPermissionAndEffect ==
    [][CallOf("checkin") =>
         \A e \in equipment :
             e.id = last'.id =>
                 IF e.assigned_to_id # last'.actor /\ ~has_permission(last'.actor, "update")
                 THEN last'.result = "denied" /\ UNCHANGED Stored
                 ELSE /\ last'.result \in {"ok", "error"}
                      /\ last'.result = "ok" =>
                             /\ equipment' = (equipment \ {e}) \cup
                                    {[e EXCEPT !.status = "Available",
                                               !.assigned_to_id = NullId]}
                             /\ movement_logs' =
                                    Append(movement_logs,
                                           MovementLog(e.id, last'.actor, "checkin",
                                                       e.assigned_to_id, NullId, e.location))
      ]_vars

\* C11 witness: a checkin by the read-only account of equipment assigned to
\* somebody else was denied.
CheckinDenied ==
    /\ last.op = "checkin"
    /\ last.result = "denied"
    /\ \E e \in equipment : e.id = last.id /\ e.assigned_to_id \notin {NullId, last.actor}

\* the step appends a movement or an audit row that references equipment id
NewLedgerEntryFor(id) ==
    \/ \E k \in (Len(movement_logs) + 1)..Len(movement_logs') :
           movement_logs'[k].equipment_id = id
    \/ \E k \in (Len(audit_logs) + 1)..Len(audit_logs') :
           audit_logs'[k].equipment_id = id

\* C12: a handler call whose commits all succeed and that creates an
\* equipment row or changes the status of one also appends a movement or an
\* audit row that references that equipment.
StatusChangeRecorded ==
    [][(ops' = ops + 1 /\ last'.result = "ok") =>
         \A e2 \in equipment' :
             (\A e \in equipment : e.id = e2.id => e.status # e2.status)
             => NewLedgerEntryFor(e2.id)
      ]_vars

----------------------------------------------------------------------------
(* The system commit by commit: one handler runs at a time, and every       *)
(* db.session.commit() it makes is a step of its own, so that the states in *)
(* between are states a reader of the store can see.  The database after    *)
(* the first k commits of a handler is what the handler leaves when its     *)
(* commit k + 1 fails.                                                      *)

Running(op, actor, id, form, db) ==
    [op |-> op, actor |-> actor, id |-> id, form |-> form, db0 |-> db, commits |-> 0]

\* the form of a request that posts none
NoForm == [absent |-> TRUE]

\* the handler of request r, run on the database it started on
Run(r, fail) ==
    CASE r.op = "add" -> add_equipment(r.db0, r.actor, r.form, fail)
      [] r.op = "edit" -> edit(r.db0, r.actor, r.id, r.form, fail)
      [] r.op = "checkout" -> checkout(r.db0, r.actor, r.id, fail)
      [] r.op = "checkin" -> checkin(r.db0, r.actor, r.id, fail)

InitCommits ==
    /\ equipment = {}
    /\ movement_logs = << >>
    /\ audit_logs = << >>
    /\ last = NoLast
    /\ ops = 0
    /\ faults = 0
    /\ session_file = NoFile
    /\ req = << >>

\* a request arrives
Begins(r) ==
    /\ req' = <<r>>
    /\ ops' = ops + 1
    /\ UNCHANGED <<equipment, movement_logs, audit_logs, last, faults, session_file>>

BeginAdd ==
    /\ req = << >>
    /\ ops < MaxOps
    /\ Cardinality(equipment) < MaxEquipment
    /\ \E actor \in Posters, form \in Forms :
           Begins(Running("add", actor, NewId(DB), form, DB))

BeginEdit ==
    /\ req = << >>
    /\ ops < MaxOps
    /\ \E actor \in Editors, e \in equipment, form \in Forms :
           Begins(Running("edit", actor, e.id, form, DB))

BeginCheckout ==
    /\ req = << >>
    /\ ops < MaxOps
    /\ \E actor \in Actors, e \in equipment :
           Begins(Running("checkout", actor, e.id, NoForm, DB))

BeginCheckin ==
    /\ req = << >>
    /\ ops < MaxOps
    /\ \E actor \in Actors, e \in equipment :
           Begins(Running("checkin", actor, e.id, NoForm, DB))

\* the database is as `db`
Stores(db) ==
    /\ equipment' = db.equipment
    /\ movement_logs' = db.movement_logs
    /\ audit_logs' = db.audit_logs

\* the running handler makes its next db.session.commit()
Commit ==
    /\ req # << >>
    /\ Run(req[1], req[1].commits + 1).result = "error"
    /\ Stores(Run(req[1], req[1].commits + 2).db)
    /\ req' = <<[req[1] EXCEPT !.commits = @ + 1]>>
    /\ UNCHANGED <<last, ops, faults, session_file>>

\* the running handler has no commit left and returns
Return ==
    /\ req # << >>
    /\ Run(req[1], req[1].commits + 1).result # "error"
    /\ Stores(Run(req[1], req[1].commits + 1).db)
    /\ last' = Called(req[1].op, req[1].actor, req[1].id,
                      Run(req[1], req[1].commits + 1).result)
    /\ req' = << >>
    /\ UNCHANGED <<ops, faults, session_file>>

NextCommits ==
    \/ BeginAdd
    \/ BeginEdit
    \/ BeginCheckout
    \/ BeginCheckin
    \/ Commit
    \/ Return

SpecCommits == InitCommits /\ [][NextCommits]_vars

\* positions in the ledger of the movements of equipment id
MovementsOf(id) ==
    {k \in 1..Len(movement_logs) : movement_logs[k].equipment_id = id}

LatestMovement(id) ==
    movement_logs[CHOOSE k \in MovementsOf(id) : \A j \in MovementsOf(id) : j <= k]

\* the row is as its latest movement left it
AgreesWithLatest(e) ==
    IF LatestMovement(e.id).action \in {"checkout", "assign"}
    THEN e.status = "In Use" /\ e.assigned_to_id = LatestMovement(e.id).to_user_id
    ELSE e.status = "Available" /\ e.assigned_to_id = NullId

\* C13: at every commit boundary, every equipment row that has a movement
\* in the ledger has the status and the assignee its latest movement gave it.
LatestMovementAgrees ==
    \A e \in equipment : MovementsOf(e.id) # {} => AgreesWithLatest(e)

----------------------------------------------------------------------------
(* Properties of the unique key *)

UniqueTags ==
    \A e1, e2 \in equipment : e1.asset_tag = e2.asset_tag => e1.id = e2.id

AssetTagImmutable ==
    [][\A e \in equipment, e2 \in equipment' :
           e.id = e2.id => e2.asset_tag = e.asset_tag
      ]_vars

----------------------------------------------------------------------------
(* Properties of the ledger *)

IsPrefix(s, t) == Len(s) <= Len(t) /\ \A i \in 1..Len(s) : s[i] = t[i]

\* the movements of the equipment rows with these ids, in ledger order
MovementsAmong(ids) == SelectSeq(movement_logs, LAMBDA m : m.equipment_id \in ids)

DeleteCascades ==
    [][(CallOf("delete") /\ last'.result = "ok") =>
         /\ \A e \in equipment' : e.id # last'.id
         /\ \A k \in 1..Len(movement_logs') : movement_logs'[k].equipment_id # last'.id
         /\ \A k \in 1..Len(audit_logs') : audit_logs'[k].equipment_id # last'.id
      ]_vars

----------------------------------------------------------------------------
(* Properties of edit and of assignment *)

\* what an edit that took row e to row e2 is to do to the ledger and to
\* the status
EditRecordsAssignment(e, e2, actor) ==
    IF e.assigned_to_id = e2.assigned_to_id
    THEN movement_logs' = movement_logs
    ELSE IF e2.assigned_to_id # NullId
    THEN /\ movement_logs' =
                Append(movement_logs,
                       MovementLog(e.id, actor, "assign", e.assigned_to_id,
                                   e2.assigned_to_id, e2.location))
         /\ e2.status = "In Use"
    ELSE /\ movement_logs' =
                Append(movement_logs,
                       MovementLog(e.id, actor, "unassign", e.assigned_to_id,
                                   NullId, e2.location))
         /\ e2.status = "Available"

AssignNeedsAssignable ==
    [][\A e \in equipment, e2 \in equipment' :
           (/\ e.id = e2.id
            /\ e2.assigned_to_id # NullId
            /\ e2.assigned_to_id # e.assigned_to_id)
           => can_be_assigned(e)
      ]_vars

\* the movements the step appends for equipment id, in ledger order
NewMovementsOf(id) ==
    SelectSeq(SubSeq(movement_logs', Len(movement_logs) + 1, Len(movement_logs')),
              LAMBDA m : m.equipment_id = id)

\* the actions of a sequence of movements
ActionsOf(movements) == [k \in 1..Len(movements) |-> movements[k].action]

\* C20: a call that succeeds and creates an equipment row without an
\* assignee leaves it 'Available' with one 'create' movement; one that
\* creates it with an assignee leaves it 'In Use' with a 'create' and an
\* 'assign' movement; whether the row comes from an add or from an import.
CreationRecorded ==
    [][(ops' = ops + 1 /\ last'.result = "ok") =>
         \A e2 \in equipment' :
             (\A e \in equipment : e.id # e2.id) =>
                 IF e2.assigned_to_id = NullId
                 THEN /\ e2.status = "Available"
                      /\ ActionsOf(NewMovementsOf(e2.id)) = <<"create">>
                 ELSE /\ e2.status = "In Use"
                      /\ ActionsOf(NewMovementsOf(e2.id)) = <<"create", "assign">>
      ]_vars

----------------------------------------------------------------------------
(* Properties of the records an operation leaves *)

\* positions of the movements the step appends
NewMovements == (Len(movement_logs) + 1)..Len(movement_logs')

\* positions of the audit rows the step appends
NewAudits == (Len(audit_logs) + 1)..Len(audit_logs')

\* the appended movements of row e2 whose destination is where e2 now is
MovementsTo(e2) ==
    {k \in NewMovements :
        /\ movement_logs'[k].equipment_id = e2.id
        /\ movement_logs'[k].to_user_id = e2.assigned_to_id
        /\ movement_logs'[k].to_location = e2.location}

\* the appended audit rows of row e2 whose new_values are its status and
\* its assignee
AuditsOf(e2) ==
    {k \in NewAudits :
        /\ audit_logs'[k].equipment_id = e2.id
        /\ {"status", "assigned_to_id"} \subseteq DOMAIN audit_logs'[k].new_values
        /\ audit_logs'[k].new_values.status = e2.status
        /\ audit_logs'[k].new_values.assigned_to_id = e2.assigned_to_id}

\* the step is a checkout, a checkin or an add of row e2, or an edit that
\* changed its assignee
Moved(e2) ==
    /\ e2.id = last'.id
    /\ last'.op \in {"add", "checkout", "checkin", "edit"}
    /\ last'.op = "edit" =>
           \E e \in equipment : e.id = e2.id /\ e.assigned_to_id # e2.assigned_to_id

\* C21: a checkout, a checkin, an edit that changes the assignee, or an add,
\* whose commits all succeed, appends exactly one movement whose to_user and
\* to_location are the assignee and the location the row has afterwards, and
\* an audit row whose new_values are the status and the assignee it has
\* afterwards.
OperationRecorded ==
    [][(ops' = ops + 1 /\ last'.result = "ok") =>
         \A e2 \in equipment' :
             Moved(e2) => (Cardinality(MovementsTo(e2)) = 1 /\ AuditsOf(e2) # {})
      ]_vars

----------------------------------------------------------------------------
(* Properties of the records an import leaves *)

\* the step is a call of the upload route, by upload or by 'proceed'
ImportCall == ops' = ops + 1 /\ last'.op \in {"bulk_import", "proceed_import"}

\* the number of rows the step adds to the equipment table
RowsAdded == Cardinality(equipment' \ equipment)

\* C22: an import that commits k >= 1 rows appends exactly one audit row,
\* with action 'bulk_import' and new_values {count: k}, and no other.
OneAuditPerBatch ==
    [][(ImportCall /\ RowsAdded >= 1) =>
         /\ Len(audit_logs') = Len(audit_logs) + 1
         /\ audit_logs'[Len(audit_logs')].action = "bulk_import"
         /\ audit_logs'[Len(audit_logs')].new_values = [count |-> RowsAdded]
      ]_vars

----------------------------------------------------------------------------
(* An import run step by step: import_from_dataframe checks the columns,    *)
(* validates the rows one by one, and, unless line 108 skips the save, adds *)
(* the accepted rows and commits them, then commits the audit row.  One run *)
(* is in progress at a time; `req` holds it.                                *)

RunTables ==
    {[columns |-> AllColumns, rows |-> rows, present |-> TRUE] :
        rows \in SeqsUpTo(Rows, MaxRunRows)}
    \cup {DuplicateTable}
    \cup {[columns |-> AllColumns \ {"name"}, rows |-> <<Row("T2", "scope", None)>>,
           present |-> TRUE]}

\* a run that passed the column check: n rows are validated so far
ImportRun(df, actor, dry_run, db) ==
    [pc |-> "validating", df |-> df, actor |-> actor, dry_run |-> dry_run,
     db0 |-> db, n |-> 0]

\* what the run in progress returns when its commit `fail` fails, 0 for none
RunResult(fail) ==
    import_from_dataframe(req[1].db0, req[1].df, req[1].actor, req[1].dry_run, fail)

\* lines 70-105 over all rows of the run in progress
RunValidated == ValidateRows(req[1].db0, req[1].df.rows, Len(req[1].df.rows))

InitRun ==
    /\ \E db \in {EmptyDB, StoreWithT1} :
           /\ equipment = db.equipment
           /\ movement_logs = db.movement_logs
           /\ audit_logs = db.audit_logs
    /\ last = NoLast
    /\ ops = 0
    /\ faults = MaxFaults
    /\ session_file = NoFile
    /\ req = << >>

\* line 125 (or 65): the run returns r
RunReturns(r, dry_run, actor) ==
    /\ Stores(r.db)
    /\ last' = Imported("import", actor, dry_run, r)
    /\ req' = << >>
    /\ UNCHANGED <<ops, session_file>>

\* lines 60-65: a required column is missing, the run returns at once
RunRefused ==
    /\ req = << >>
    /\ ops < MaxOps
    /\ \E df \in RunTables, dry_run \in BOOLEAN :
           /\ ~(REQUIRED_FIELDS \subseteq df.columns)
           /\ Stores(import_from_dataframe(DB, df, 1, dry_run, 0).db)
           /\ last' = Imported("import", 1, dry_run, import_from_dataframe(DB, df, 1, dry_run, 0))
           /\ ops' = ops + 1
           /\ UNCHANGED <<req, faults, session_file>>

\* lines 57-68: the columns are there, the loop begins
RunStart ==
    /\ req = << >>
    /\ ops < MaxOps
    /\ \E df \in RunTables, dry_run \in BOOLEAN :
           /\ REQUIRED_FIELDS \subseteq df.columns
           /\ req' = <<ImportRun(df, 1, dry_run, DB)>>
           /\ ops' = ops + 1
           /\ UNCHANGED <<equipment, movement_logs, audit_logs, last, faults, session_file>>

\* lines 70-105: one iteration of the loop
RunValidate ==
    /\ req # << >>
    /\ req[1].pc = "validating"
    /\ req[1].n < Len(req[1].df.rows)
    /\ req' = <<[req[1] EXCEPT !.n = @ + 1]>>
    /\ UNCHANGED <<equipment, movement_logs, audit_logs, last, ops, faults, session_file>>

\* line 108 is false: the run returns what it validated
RunSkip ==
    /\ req # << >>
    /\ req[1].pc = "validating"
    /\ req[1].n = Len(req[1].df.rows)
    /\ ~ShouldSave(req[1].dry_run, RunValidated.equipment_list)
    /\ RunReturns(RunResult(0), req[1].dry_run, req[1].actor)
    /\ UNCHANGED faults

\* line 108 is true: the run enters the try block of the save
RunEnter ==
    /\ req # << >>
    /\ req[1].pc = "validating"
    /\ req[1].n = Len(req[1].df.rows)
    /\ ShouldSave(req[1].dry_run, RunValidated.equipment_list)
    /\ req' = <<[req[1] EXCEPT !.pc = "committing"]>>
    /\ UNCHANGED <<equipment, movement_logs, audit_logs, last, ops, faults, session_file>>

\* lines 110-112: the rows are added and committed
RunCommitRows ==
    /\ req # << >>
    /\ req[1].pc = "committing"
    /\ RunResult(1).result = "error"
    /\ Stores(RunResult(2).db)
    /\ req' = <<[req[1] EXCEPT !.pc = "auditing"]>>
    /\ UNCHANGED <<last, ops, faults, session_file>>

\* lines 112, 121-123: the commit of the rows raises, by UNIQUE(asset_tag)
\* or by a failure of the store
RunCommitFails ==
    /\ req # << >>
    /\ req[1].pc = "committing"
    /\ RunResult(1).result = "conflict" \/ faults > 0
    /\ RunReturns(RunResult(1), req[1].dry_run, req[1].actor)
    /\ faults' = IF RunResult(1).result = "conflict" THEN faults ELSE faults - 1

\* lines 113-120: log_audit_event commits the audit row
RunCommitAudit ==
    /\ req # << >>
    /\ req[1].pc = "auditing"
    /\ RunReturns(RunResult(0), req[1].dry_run, req[1].actor)
    /\ UNCHANGED faults

\* lines 113-123: the commit inside log_audit_event raises
RunAuditFails ==
    /\ req # << >>
    /\ req[1].pc = "auditing"
    /\ faults > 0
    /\ RunReturns(RunResult(2), req[1].dry_run, req[1].actor)
    /\ faults' = faults - 1

NextRun ==
    \/ RunRefused
    \/ RunStart
    \/ RunValidate
    \/ RunSkip
    \/ RunEnter
    \/ RunCommitRows
    \/ RunCommitFails
    \/ RunCommitAudit
    \/ RunAuditFails

SpecRun == InitRun /\ [][NextRun]_vars

\* the step ends a run: the function returns
RunEnds ==
    \/ req # << >> /\ req' = << >>
    \/ req = << >> /\ req' = << >> /\ ops' = ops + 1

\* the equipment table the ending run started on
StartEquipment == IF req # << >> THEN req[1].db0.equipment ELSE equipment

ReportsDatabaseError ==
    \E k \in 1..Len(last'.results.errors) : last'.results.errors[k] = DatabaseError

\* The terminal states of a run, told at the step that ends it.  A run that
\* ends behind its loop with nothing to save (line 108 is false, or a column
\* is missing) ends as a dry run does: validated, nothing written.
DryRunComplete == ~ReportsDatabaseError /\ equipment' = StartEquipment

Committed ==
    /\ ~last'.dry_run
    /\ ~ReportsDatabaseError
    /\ equipment' # StartEquipment

CommitFailed ==
    /\ ~last'.dry_run
    /\ ReportsDatabaseError
    /\ equipment' = StartEquipment

\* the run is past its loop and in the save of lines 108-123
InCommitting ==
    /\ req # << >>
    /\ req[1].pc \in {"committing", "auditing"}
    /\ req[1].n = Len(req[1].df.rows)

\* C23: a run validates all its rows before its first write to the store,
\* enters the save only when dry_run is false, and ends in exactly one of
\* DryRunComplete (nothing written), Committed (the batch stored, no error)
\* and CommitFailed (a database error reported, no row of the batch stored).
ImportRunStateMachine ==
    [][/\ Stored' # Stored => (InCommitting /\ ~req[1].dry_run)
       /\ RunEnds =>
              /\ DryRunComplete \/ Committed \/ CommitFailed
              /\ ~(DryRunComplete /\ Committed)
              /\ ~(DryRunComplete /\ CommitFailed)
              /\ ~(Committed /\ CommitFailed)
      ]_vars

----------------------------------------------------------------------------
(* utils/bulk_operations.py: BulkOperations.export_to_csv, and the file     *)
(* read back by pd.read_csv                                                 *)

\* csv.writer writes None as the empty string, and a string as it is
CsvText(value) == IF value = None THEN "" ELSE value

\* lines 151-156: the cells of one equipment row, for the columns of the model
ExportRow(e) ==
    [asset_tag |-> CsvText(e.asset_tag), name |-> CsvText(e.name),
     category |-> CsvText(e.category),
     procurement_date |-> CsvText(e.procurement_date), status |-> CsvText(e.status),
     pin_count |-> CsvText(e.pin_count)]

\* the row Equipment.query.all() returns last: the one with the largest id
LastRow(rows) == CHOOSE e \in rows : \A x \in rows : x.id <= e.id

\* lines 145-157: one line for every equipment row, in the order of the ids
RECURSIVE ExportRows(_)
ExportRows(rows) ==
    IF rows = {} THEN << >>
    ELSE Append(ExportRows(rows \ {LastRow(rows)}), ExportRow(LastRow(rows)))

\* the exported file as the upload route reads it
export_to_csv(db) ==
    [columns |-> AllColumns, rows |-> ExportRows(db.equipment), present |-> TRUE]

\* what a dry run of the exported store reports on an empty store
RoundTrip == import_from_dataframe(EmptyDB, export_to_csv(DB), 1, TRUE, 0).results

\* C24: importing the export of the store in a dry run on an empty store
\* rejects no row as a duplicate and accepts every row.
ExportRoundTrips ==
    /\ \A k \in 1..Len(RoundTrip.errors) : RoundTrip.errors[k].msg # "already exists"
    /\ RoundTrip.success = RoundTrip.total
    /\ RoundTrip.total = Cardinality(equipment)

----------------------------------------------------------------------------
(* Typed cells: parse_date applied to a text, and uploads of tables whose   *)
(* rows carry a procurement_date or a pin_count                             *)

DateTexts ==
    {"2024-01-31", "01/31/2024", "31/01/2024", "01/02/2024", "2024-01-31 10:30:00",
     "2024-13-01", "31/31/2024", "02/30/2024", "30/02/2024", "01/31/2024 10:30:00",
     "Jan 31", Blank}

\* the cells of the date column of the uploaded tables
DateCells == {None, "2024-01-31", "01/02/2024", "31/31/2024"}

\* the cells of the pin_count column: an integer, a number with a fraction
\* and a text that is no number
PinCells == {"8", "256.5", "x"}

TypedRows(i) ==
    {[Row(PositionTag[i], "scope", None) EXCEPT !.procurement_date = d] : d \in DateCells}
    \cup {[Row(PositionTag[i], "scope", None) EXCEPT !.pin_count = n] : n \in PinCells}

RECURSIVE TypedSeqs(_)
TypedSeqs(n) ==
    IF n = 0 THEN {<< >>}
    ELSE TypedSeqs(n - 1)
         \cup UNION {{Append(q, x) : x \in TypedRows(Len(q) + 1)} : q \in TypedSeqs(n - 1)}

TypedTables ==
    {[columns |-> AllColumns, rows |-> rows, present |-> TRUE] : rows \in TypedSeqs(MaxTypedRows)}

InitTyped ==
    /\ equipment = {}
    /\ movement_logs = << >>
    /\ audit_logs = << >>
    /\ last = NoLast
    /\ ops = 0
    /\ faults = 0
    /\ session_file = NoFile
    /\ req = << >>

\* parse_date is called with a text
ParseDate ==
    /\ \E text \in DateTexts : req' = <<[text |-> text, parsed |-> parse_date(text)]>>
    /\ UNCHANGED <<equipment, movement_logs, audit_logs, last, ops, faults, session_file>>

\* a table with dates and numbers is uploaded
UploadTyped ==
    /\ last.op = "none"
    /\ \E file \in TypedTables, dry_run \in BOOLEAN :
           Served(bulk_import(DB, session_file, 1, file, dry_run, FALSE, 0),
                  0, "bulk_import", 1, dry_run)

NextTyped ==
    \/ ParseDate
    \/ UploadTyped

SpecTyped == InitTyped /\ [][NextTyped]_vars

\* the texts of the model that no format of parse_date converts
Unparseable ==
    {"2024-13-01", "31/31/2024", "02/30/2024", "30/02/2024", "01/31/2024 10:30:00", "Jan 31"}

\* parse_date returned the date the formats give in their order, month
\* before day, or raised for a text no format converts
ParsedInOrder(text, parsed) ==
    /\ text \in {"2024-01-31", "01/31/2024", "31/01/2024", "2024-01-31 10:30:00"}
           => parsed = [raises |-> "", value |-> <<2024, 1, 31>>]
    /\ text = "01/02/2024" => parsed = [raises |-> "", value |-> <<2024, 1, 2>>]
    /\ text \in Unparseable => parsed.raises = "Invalid date format"

\* the upload reports row i as its date demands: with an invalid-date error
\* when no format converts it, without an error otherwise
DateRowReported(i) ==
    IF UploadedRows[i].procurement_date \in Unparseable
    THEN /\ ErrorsOf(RowNum(i)) # {}
         /\ \A k \in ErrorsOf(RowNum(i)) : last.results.errors[k].msg = "Invalid date format"
    ELSE ErrorsOf(RowNum(i)) = {}

\* C25: parse_date returns the date of the first of its four formats, in
\* their fixed order, that converts the text, month before day for a text
\* that reads both ways; in an upload, a row whose date no format converts is
\* rejected with an invalid-date error and the other rows are still
\* processed.
DatesParsedInOrder ==
    /\ req # << >> => ParsedInOrder(req[1].text, req[1].parsed)
    /\ DryRunReturned =>
           /\ last.results.total = Len(UploadedRows)
           /\ \A i \in 1..Len(UploadedRows) :
                  UploadedRows[i].pin_count = None => DateRowReported(i)

\* the call that returned last was an upload that validated its rows, for a
\* dry run or not
UploadReturned == last.op = "bulk_import" /\ last.result = "ok"

\* the upload treated row i as its pin_count demands: rejected when the
\* cell is no integer, accepted when it is one, and then stored with it
PinCountTreated(i) ==
    /\ UploadedRows[i].pin_count \in {"256.5", "x"} => ErrorsOf(RowNum(i)) # {}
    /\ UploadedRows[i].pin_count = "8" =>
           /\ ErrorsOf(RowNum(i)) = {}
           /\ ~last.dry_run =>
                  \E e \in equipment :
                      e.asset_tag = UploadedRows[i].asset_tag /\ e.pin_count = "8"

\* C26: an upload rejects a row whose pin_count is not numeric or has a
\* fractional part, and accepts a row whose pin_count is an integer, storing
\* that integer.
PinCountStrict ==
    UploadReturned => \A i \in 1..Len(UploadedRows) : PinCountTreated(i)

\* C27: the success count an import that is not a dry run returns is the
\* number of rows it has added to the equipment table; it is 0 after a
\* commit that failed and was rolled back.
SuccessCountsStoredRows ==
    [][(ImportCall /\ ~last'.dry_run) => last'.results.success = RowsAdded]_vars

----------------------------------------------------------------------------
(* Further properties of checkin, of the 'proceed' step and of edit *)

\* C28: a checkin that succeeds is of equipment that is 'In Use' with an
\* assignee, so that the 'checkin' movement it appends has a from_user and
\* no equipment leaves 'Under Maintenance', 'Retired' or 'Missing' for
\* 'Available' by a checkin.
CheckinNeedsInUse ==
    [][(CallOf("checkin") /\ last'.result = "ok") =>
         /\ \A e \in equipment :
                e.id = last'.id => (e.status = "In Use" /\ e.assigned_to_id # NullId)
         /\ \A k \in NewMovements :
                movement_logs'[k].action = "checkin" => movement_logs'[k].from_user_id # NullId
      ]_vars

----------------------------------------------------------------------------
(* Dry run, then proceed: a table is uploaded for a dry run, an equipment   *)
(* row may be added by the form in between, and the 'proceed with import'   *)
(* step imports the file the session refers to.                             *)

ProceedRows == {Row(t, "scope", None) : t \in Tags}

ProceedTables ==
    {[columns |-> AllColumns, rows |-> rows, present |-> TRUE] :
        rows \in SeqsUpTo(ProceedRows, MaxProceedRows)}

\* the forms posted in between: unassigned, available equipment
BetweenForms == {f \in Forms : f.assigned_to = NullId /\ f.status = "Available"}

InitProceed ==
    /\ equipment = {}
    /\ movement_logs = << >>
    /\ audit_logs = << >>
    /\ last = NoLast
    /\ ops = 0
    /\ faults = MaxFaults
    /\ session_file = NoFile
    /\ req = << >>

UploadDryRun ==
    /\ last.op = "none"
    /\ \E actor \in Posters, file \in ProceedTables :
           Served(bulk_import(DB, session_file, actor, file, TRUE, FALSE, 0),
                  0, "bulk_import", actor, TRUE)

AddBetween ==
    /\ last.op = "bulk_import"
    /\ \E actor \in Posters, form \in BetweenForms, fail \in FailChoices(3) :
           Handled(add_equipment(DB, actor, form, fail), fail, "add", actor, NewId(DB))

ProceedAfter ==
    /\ last.op \in {"bulk_import", "add"}
    /\ \E actor \in Posters, fail \in FailChoices(2) :
           Served(bulk_import(DB, session_file, actor, NoFile, FALSE, TRUE, fail),
                  fail, "proceed_import", actor, FALSE)

NextProceed ==
    \/ UploadDryRun
    \/ AddBetween
    \/ ProceedAfter

SpecProceed == InitProceed /\ [][NextProceed]_vars

\* the rows of the table with this asset tag
RowsTagged(rows, tag) == {e \in rows : e.asset_tag = tag}

\* the proceed step reports the i-th row of the session's file as a
\* duplicate of a stored row and writes no row with its tag
RejectedAtProceed(i) ==
    /\ \E k \in 1..Len(last'.results.errors) :
           last'.results.errors[k] = RowError(RowNum(i), "already exists")
    /\ RowsTagged(equipment', session_file.rows[i].asset_tag)
           = RowsTagged(equipment, session_file.rows[i].asset_tag)

\* C29: the proceed step imports the file the session refers to, validating
\* every row against the store as it is then: a row whose asset tag is in
\* the store by then is rejected and not written, whatever the dry run said;
\* and the step leaves the session without the file.
ProceedRevalidates ==
    [][(CallOf("proceed_import") /\ last'.result \in {"ok", "conflict", "error"}) =>
         /\ session_file.present
         /\ session_file' = NoFile
         /\ last'.results.total = Len(session_file.rows)
         /\ \A i \in 1..Len(session_file.rows) :
                TagExists(DB, session_file.rows[i].asset_tag) => RejectedAtProceed(i)
      ]_vars

\* C29 witness: the store was empty at the dry run; a row with the tag of
\* an uploaded row was then added by the form, and the proceed step has
\* rejected that row as a duplicate and cleared the session.
ProceedRejectedLateDuplicate ==
    /\ last.op = "proceed_import"
    /\ last.result = "ok"
    /\ session_file = NoFile
    /\ \E k \in 1..Len(last.results.errors) : last.results.errors[k].msg = "already exists"
    /\ \E e \in equipment : e.location = "Lab1"

----------------------------------------------------------------------------
(* Edits with invalid input: equipment is added by the form and then        *)
(* edited; `req` keeps the form the last edit posted.                       *)

\* the forms of an edit: those above, and forms whose purchase_cost is no
\* number
EditForms ==
    Forms \cup
    [asset_tag : Tags, name : {"scope"}, category : {"cat"},
     status : {"Available"}, pin_count : {""}, location : Locations,
     assigned_to : Assignees, purchase_cost : {"x"}]

InitEdit ==
    /\ equipment = {}
    /\ movement_logs = << >>
    /\ audit_logs = << >>
    /\ last = NoLast
    /\ ops = 0
    /\ faults = MaxFaults
    /\ session_file = NoFile
    /\ req = << >>

AddFirst ==
    /\ ops < MaxOps
    /\ Cardinality(equipment) < MaxEquipment
    /\ \E actor \in Posters, form \in Forms, fail \in FailChoices(3) :
           Handled(add_equipment(DB, actor, form, fail), fail, "add", actor, NewId(DB))

\* the edit handler was called with the form and returned r
EditReturned(r, fail, actor, id, form) ==
    /\ Returns(r, fail)
    /\ last' = Called("edit", actor, id, r.result)
    /\ req' = <<form>>
    /\ UNCHANGED session_file

EditPosted ==
    /\ ops < MaxOps
    /\ \E actor \in Editors, e \in equipment, form \in EditForms, fail \in FailChoices(2) :
           EditReturned(edit(DB, actor, e.id, form, fail), fail, actor, e.id, form)

NextEdit ==
    \/ AddFirst
    \/ EditPosted

SpecEdit == InitEdit /\ [][NextEdit]_vars

\* C30: an edit that is rejected for invalid input leaves the equipment
\* table and both ledgers as they were: nothing of what it had assigned or
\* added before the error is committed.
RejectedEditCommitsNothing ==
    [][(CallOf("edit") /\ last'.result = "invalid") => UNCHANGED Stored]_vars

\* C30 witness: an edit was rejected for its purchase_cost after it had
\* given the row another asset tag and another assignee, and so had added a
\* movement; the row is as it was.
EditRejectedAfterMovement ==
    /\ last.op = "edit"
    /\ last.result = "invalid"
    /\ req # << >>
    /\ req[1].purchase_cost = "x"
    /\ \E e \in equipment :
           /\ e.id = last.id
           /\ e.assigned_to_id # req[1].assigned_to
           /\ e.asset_tag # req[1].asset_tag
    /\ movement_logs = << >>

====
